---------------------------- MODULE Spec2Model ----------------------------
(***************************************************************************)
(* Model of the Egregoria simulation kernel: the in-game clock             *)
(* (simulation/src/utils/time.rs), the road model                          *)
(* (scale/src/map_model/road.rs) and the Egregoria instance with its       *)
(* schedule and resources (egregoria/src/lib.rs).                          *)
(*                                                                         *)
(* Numbers.  i32 and u32 values are integers.  f32/f64 values are modelled *)
(* in exact fixed-point arithmetic: rounding, NaN and infinities are not   *)
(* modelled.                                                               *)
(***************************************************************************)
EXTENDS Integers, Sequences, FiniteSets, TLC

VARIABLES
    secs,       \* DayTime round trip: the i32 handed to DayTime::new
    dt,         \* DayTime round trip: the DayTime built from secs
    gs,         \* DayTime round trip: gamesec() of dt
    interval,   \* the RecTimeInterval under test
    tq,         \* the DayTime handed to dist_until on the current interval
    dist,       \* the value dist_until returned for tq
    time,       \* the GameTime resource
    prev,       \* the timestamp of the GameTime that `time` replaced
    intersections,  \* Intersections: IntersectionID -> pos
    roads,      \* Roads: the road store, RoadID -> Road
    lanes,      \* Lanes: the lane store, LaneID -> Lane
    panicked,   \* a call has panicked
    lastOp,     \* the last operation on the map, and the road and the
                \* intersection it was on
    ret,        \* what the last call on the map returned: Ok(v), or Panic
    goria,      \* the Egregoria instance: world, schedule, resources
    phase,      \* the scheduler: "Idle", "Running" or "ApplyingDeferred"
    pc,         \* while Running: the place in the schedule of the next system
    executed,   \* the systems executed by the run in progress, or the last
    marked,     \* the entities marked for deletion by that run
    fresh,      \* the next Entity the World allocates
    runs,       \* the number of run() calls begun on the instance
    borrows,    \* per resource type, the accessors that are alive
    call,       \* the last call on the instance, its argument and its result
    aborted     \* a call on the instance has panicked

dayVars == <<secs, dt, gs>>
recVars == <<interval, tq, dist>>
clockVars == <<time, prev>>
roadVars == <<intersections, roads, lanes, panicked, lastOp, ret>>
kernelVars ==
    <<goria, phase, pc, executed, marked, fresh, runs, borrows, call,
      aborted>>
timeVars == <<dayVars, recVars, clockVars, kernelVars>>

vars == <<secs, dt, gs, interval, tq, dist, time, prev,
          intersections, roads, lanes, panicked, lastOp, ret,
          goria, phase, pc, executed, marked, fresh, runs, borrows, call,
          aborted>>

\* Option<T>: None, or Some(x) holding x
None == << >>
Some(x) == <<x>>
IsSome(o) == o # << >>
Val(o) == o[1]

-----------------------------------------------------------------------------
(* time.rs: constants *)

SECONDS_PER_REALTIME_SECOND == 15
SECONDS_PER_HOUR == 3600
HOURS_PER_DAY == 24
SECONDS_PER_DAY == SECONDS_PER_HOUR * HOURS_PER_DAY

\* i32::MAX, written so that no intermediate value leaves the 32-bit range
I32Max == (2^30 - 1) + 2^30

-----------------------------------------------------------------------------
(* Rust integer division and remainder on i32 (b > 0): the quotient is     *)
(* truncated toward zero and the remainder has the sign of the dividend.   *)

RDiv(a, b) == IF a >= 0 \/ a % b = 0 THEN a \div b ELSE (a \div b) + 1

RRem(a, b) == a - RDiv(a, b) * b

-----------------------------------------------------------------------------
(* DayTime *)

\* as DayTimeNew, the hour not reduced to the day
DayTimeNew_HourOfGame(seconds) ==
    [day    |-> RDiv(seconds, SECONDS_PER_DAY),
     hour   |-> RDiv(seconds, SECONDS_PER_HOUR),
     second |-> RRem(seconds, SECONDS_PER_HOUR)]

DayTimeNew(seconds) ==
    [day    |-> RDiv(seconds, SECONDS_PER_DAY),
     hour   |-> RDiv(RRem(seconds, SECONDS_PER_DAY), SECONDS_PER_HOUR),
     second |-> RRem(seconds, SECONDS_PER_HOUR)]

daysec(d) == d.hour * SECONDS_PER_HOUR + d.second

gamesec(d) == d.day * SECONDS_PER_DAY + daysec(d)

\* as DayTimeLt, the seconds compared before the hours
DayTimeLt_SecondBeforeHour(a, b) ==
    \/ a.day < b.day
    \/ a.day = b.day /\ a.second < b.second
    \/ a.day = b.day /\ a.second = b.second /\ a.hour < b.hour

\* #[derive(PartialOrd, Ord)] on DayTime: lexicographic on (day, hour, second)
DayTimeLt(a, b) ==
    \/ a.day < b.day
    \/ a.day = b.day /\ a.hour < b.hour
    \/ a.day = b.day /\ a.hour = b.hour /\ a.second < b.second

DayTimeLe(a, b) == a = b \/ DayTimeLt(a, b)

-----------------------------------------------------------------------------
(* RecTimeInterval *)

\* as RecTimeIntervalNew, the overlap decided on the hours alone
RecTimeIntervalNew_HoursOnly(start, end) ==
    [start_hour   |-> start[1],
     start_second |-> start[2],
     end_hour     |-> end[1],
     end_second   |-> end[2],
     overlap      |-> end[1] < start[1]]

RecTimeIntervalNew(start, end) ==
    [start_hour   |-> start[1],
     start_second |-> start[2],
     end_hour     |-> end[1],
     end_second   |-> end[2],
     overlap      |-> \/ end[1] < start[1]
                      \/ (end[1] = start[1] /\ end[2] < start[2])]

\* as dist_until, the start not moved to the next day after the end
dist_until_SameDay(self, t) ==
    LET start_dt == [day |-> t.day, hour |-> self.start_hour,
                     second |-> self.start_second]
        end_dt   == [day |-> t.day, hour |-> self.end_hour,
                     second |-> self.end_second]
    IN  IF ~self.overlap
        THEN IF DayTimeLt(t, start_dt) \/ DayTimeLt(end_dt, t)
             THEN gamesec(start_dt) - gamesec(t)
             ELSE 0
        ELSE IF DayTimeLe(end_dt, t) /\ DayTimeLe(t, start_dt)
             THEN gamesec(start_dt) - gamesec(t)
             ELSE 0

dist_until(self, t) ==
    LET start_dt == [day |-> t.day, hour |-> self.start_hour,
                     second |-> self.start_second]
        end_dt   == [day |-> t.day, hour |-> self.end_hour,
                     second |-> self.end_second]
    IN  IF ~self.overlap
        THEN IF DayTimeLt(t, start_dt)
             THEN gamesec(start_dt) - gamesec(t)
             ELSE IF DayTimeLt(end_dt, t)
                  THEN gamesec([start_dt EXCEPT !.day = @ + 1]) - gamesec(t)
                  ELSE 0
        ELSE IF DayTimeLe(end_dt, t) /\ DayTimeLe(t, start_dt)
             THEN gamesec(start_dt) - gamesec(t)
             ELSE 0

-----------------------------------------------------------------------------
(* Timestamps.  GameTime.timestamp is an f64 number of seconds.  It is     *)
(* held as [hi, lo, frac], the value hi * 2^31 + lo + frac / TimeScale     *)
(* with 0 <= lo < 2^31 and 0 <= frac < TimeScale, so that timestamps at    *)
(* and above 2^31 seconds are representable.  A u32 is held as [hi, lo]     *)
(* with hi in {0, 1}.                                                      *)

\* sub-second resolution of the modelled timestamps and real deltas
TimeScale == 30

Ts(hi, lo, frac) == [hi |-> hi, lo |-> lo, frac |-> frac]

\* w + n and w - n on whole seconds, n a small natural number
WAddSec(w, n) ==
    IF w.lo > I32Max - n
    THEN [w EXCEPT !.hi = @ + 1, !.lo = (@ - (I32Max - n)) - 1]
    ELSE [w EXCEPT !.lo = @ + n]

WSubSec(w, n) ==
    IF w.lo >= n
    THEN [w EXCEPT !.lo = @ - n]
    ELSE [w EXCEPT !.hi = @ - 1, !.lo = (I32Max - (n - @)) + 1]

\* ts + d and ts - d, d a natural number of 1/TimeScale seconds
TsAdd(ts, d) ==
    [WAddSec(ts, (ts.frac + d) \div TimeScale)
        EXCEPT !.frac = (ts.frac + d) % TimeScale]

TsSub(ts, d) ==
    [WSubSec(ts, -((ts.frac - d) \div TimeScale))
        EXCEPT !.frac = (ts.frac - d) % TimeScale]

TsLt(a, b) ==
    \/ a.hi < b.hi
    \/ a.hi = b.hi /\ a.lo < b.lo
    \/ a.hi = b.hi /\ a.lo = b.lo /\ a.frac < b.frac

TsLe(a, b) == a = b \/ TsLt(a, b)

\* `timestamp as u32`: truncates toward zero and saturates at 0 and u32::MAX
AsU32(ts) ==
    IF ts.hi < 0 THEN [hi |-> 0, lo |-> 0]
    ELSE IF ts.hi > 1 THEN [hi |-> 1, lo |-> I32Max]
    ELSE [hi |-> ts.hi, lo |-> ts.lo]

\* `seconds as i32`: the same 32 bits read as two's complement
AsI32(u) == IF u.hi = 0 THEN u.lo ELSE (u.lo - I32Max) - 1

\* `(seconds / freq * freq) as f64` in u32 arithmetic
TimeNear(u, freq) ==
    LET m == IF u.hi = 0
             THEN u.lo % freq
             ELSE ((I32Max % freq) + 1 + (u.lo % freq)) % freq
        w == WSubSec(u, m)
    IN  Ts(w.hi, w.lo, 0)

-----------------------------------------------------------------------------
(* GameTime *)

\* as GameTimeNew, the two arguments taken for one another
GameTimeNew_ArgumentsSwapped(delta, timestamp) ==
    LET seconds == AsU32(timestamp)
    IN  [timestamp |-> Ts(0, 0, delta),
         realdelta |-> timestamp.frac,
         seconds   |-> seconds,
         daytime   |-> DayTimeNew(AsI32(seconds))]

GameTimeNew(delta, timestamp) ==
    LET seconds == AsU32(timestamp)
    IN  [timestamp |-> timestamp,
         realdelta |-> delta,
         seconds   |-> seconds,
         daytime   |-> DayTimeNew(AsI32(seconds))]

tick(self, freq) ==
    LET time_near == TimeNear(self.seconds, freq)
    IN  /\ TsLt(time_near, self.timestamp)
        /\ TsLe(TsSub(self.timestamp,
                      SECONDS_PER_REALTIME_SECOND * self.realdelta),
                time_near)

-----------------------------------------------------------------------------
(* Geometry.  Positions lie on a line and are integers in units of         *)
(* 1 / One; every position and every interface handed to the model is a    *)
(* multiple of One, so that `l * 0.5` is exact.  A PolyLine is a sequence  *)
(* of at least two positions.                                              *)

\* the f32 1.0
One == 2

Abs(x) == IF x < 0 THEN -x ELSE x

Sign(x) == IF x < 0 THEN -1 ELSE IF x > 0 THEN 1 ELSE 0

Reverse(s) == [i \in 1..Len(s) |-> s[Len(s) + 1 - i]]

\* f32::max
Max(a, b) == IF a >= b THEN a ELSE b

\* PolyLine::length: the sum of the lengths of the segments
PolyLength(pts) ==
    LET RECURSIVE upto(_)
        upto(i) == IF i = 1 THEN 0
                   ELSE upto(i - 1) + Abs(pts[i] - pts[i - 1])
    IN  upto(Len(pts))

\* PolyLine::first_dir and last_dir: the direction of the first and of the
\* last segment; 0 stands for None (a segment of length zero)
first_dir(pts) == Sign(pts[2] - pts[1])
last_dir(pts) == Sign(pts[Len(pts)] - pts[Len(pts) - 1])

-----------------------------------------------------------------------------
(* Lanes *)

LaneKinds == {"Driving", "Walking"}

\* LaneKind::width
KindWidth(kind) == IF kind = "Driving" THEN 8 * One ELSE 4 * One

\* Lane::gen_pos(intersections, parent_road, dist_from_bottom): the lane's
\* points are derived anew from the road's polyline, taken in the lane's
\* direction, at the lateral offset dist_from_bottom
LaneGenPos(l, inters, road, dist_from_bottom) ==
    [l EXCEPT !.points =
        Some([offset |-> dist_from_bottom,
              line   |-> IF l.src = road.src
                         THEN road.points
                         ELSE Reverse(road.points)])]

-----------------------------------------------------------------------------
(* Road *)

\* the result of a call: Ok(v), or Panic when the call panicked
Ok(v) == <<v>>
Panic == << >>

is_one_way(self) == self.lanes_forward = << >> \/ self.lanes_backward = << >>

n_lanes(self) == Len(self.lanes_backward) + Len(self.lanes_forward)

\* as lanes_iter, the forward lanes in the order of their list
lanes_iter_ForwardInOrder(self) == self.lanes_forward \o self.lanes_backward

lanes_iter(self) == Reverse(self.lanes_forward) \o self.lanes_backward

\* as add_lane, a backward lane given the ends of a forward lane
add_lane_SameEnds(self, store, lane_type, direction) ==
    LET src_dir == first_dir(self.points)
        dst_dir == -last_dir(self.points)
        id == Len(store) + 1
        lane == [id           |-> id,
                 src          |-> self.src,
                 dst          |-> self.dst,
                 src_dir      |-> src_dir,
                 dst_dir      |-> dst_dir,
                 kind         |-> lane_type,
                 points       |-> None,
                 width        |-> KindWidth(lane_type),
                 inter_length |-> self.length,
                 control      |-> "Always"]
    IN  [road  |-> IF direction = "Forward"
                   THEN [self EXCEPT !.lanes_forward = Append(@, id)]
                   ELSE [self EXCEPT !.lanes_backward = Append(@, id)],
         lanes |-> Append(store, lane),
         id    |-> id]

\* add_lane: the road and the lane store after the call, and the new LaneID
add_lane(self, store, lane_type, direction) ==
    LET src_dir == first_dir(self.points)
        dst_dir == -last_dir(self.points)
        id == Len(store) + 1
        lane == [id           |-> id,
                 src          |-> IF direction = "Forward" THEN self.src ELSE self.dst,
                 dst          |-> IF direction = "Forward" THEN self.dst ELSE self.src,
                 src_dir      |-> IF direction = "Forward" THEN src_dir ELSE dst_dir,
                 dst_dir      |-> IF direction = "Forward" THEN dst_dir ELSE src_dir,
                 kind         |-> lane_type,
                 points       |-> None,
                 width        |-> KindWidth(lane_type),
                 inter_length |-> self.length,
                 control      |-> "Always"]
    IN  [road  |-> IF direction = "Forward"
                   THEN [self EXCEPT !.lanes_forward = Append(@, id)]
                   ELSE [self EXCEPT !.lanes_backward = Append(@, id)],
         lanes |-> Append(store, lane),
         id    |-> id]

\* as GenPosWidth, the backward lanes left out
GenPosWidth_ForwardOnly(self, store) ==
    LET RECURSIVE sum(_)
        sum(ids) == IF ids = << >> THEN 0
                    ELSE store[Head(ids)].width + sum(Tail(ids))
    IN  sum(self.lanes_forward)

\* as GenPosWidth, the width added to the width the road already has
GenPosWidth_Accumulating(self, store) ==
    LET RECURSIVE sum(_)
        sum(ids) == IF ids = << >> THEN 0
                    ELSE store[Head(ids)].width + sum(Tail(ids))
    IN  self.width + sum(lanes_iter(self))

\* gen_pos, line 147: self.lanes_iter().map(|&x| lanes[x].width).sum()
GenPosWidth(self, store) ==
    LET RECURSIVE sum(_)
        sum(ids) == IF ids = << >> THEN 0
                    ELSE store[Head(ids)].width + sum(Tail(ids))
    IN  sum(lanes_iter(self))

\* gen_pos, lines 149-154: every lane of lanes_iter is laid out in turn
RECURSIVE GenPosLanes(_, _, _, _, _)
GenPosLanes(self, inters, store, ids, dist_from_bottom) ==
    IF ids = << >> THEN store
    ELSE LET id == Head(ids)
             l  == LaneGenPos(store[id], inters, self, dist_from_bottom)
         IN  GenPosLanes(self, inters, [store EXCEPT ![id] = l], Tail(ids),
                         dist_from_bottom + l.width)

\* gen_pos: the road and the lane store after the call
gen_pos(self, inters, store) ==
    LET pts   == [self.points EXCEPT ![1] = inters[self.src],
                                     ![Len(self.points)] = inters[self.dst]]
        road1 == [self EXCEPT !.points = pts, !.length = PolyLength(pts)]
        road2 == [road1 EXCEPT !.width = GenPosWidth(road1, store)]
    IN  [road  |-> road2,
         lanes |-> GenPosLanes(road2, inters, store, lanes_iter(road2), 0)]

\* as MakeLanes, the kinds taken from the last to the first
RECURSIVE MakeLanes_LastFirst(_, _, _)
MakeLanes_LastFirst(rl, kinds, direction) ==
    IF kinds = << >> THEN rl
    ELSE LET rest == MakeLanes_LastFirst(rl, Tail(kinds), direction)
         IN  add_lane(rest.road, rest.lanes, Head(kinds), direction)

\* Road::make, lines 68-73: one add_lane for every kind of the pattern
RECURSIVE MakeLanes(_, _, _)
MakeLanes(rl, kinds, direction) ==
    IF kinds = << >> THEN rl
    ELSE MakeLanes(add_lane(rl.road, rl.lanes, Head(kinds), direction),
                   Tail(kinds), direction)

\* Road::make: the new road, and the lane store after the call
RoadMake(src, dst, interpolation_points, lane_pattern, inters, store, id) ==
    LET road0 == [id             |-> id,
                  src            |-> src,
                  dst            |-> dst,
                  src_interface  |-> 9 * One,
                  dst_interface  |-> 9 * One,
                  points         |-> interpolation_points,
                  width          |-> One,
                  length         |-> One,
                  lanes_forward  |-> << >>,
                  lanes_backward |-> << >>,
                  lane_pattern   |-> lane_pattern]
        fwd == MakeLanes([road |-> road0, lanes |-> store],
                         lane_pattern.lanes_forward, "Forward")
        bwd == MakeLanes(fwd, lane_pattern.lanes_backward, "Backward")
    IN  gen_pos(bwd.road, inters, bwd.lanes)

interfaces_from(self, id) ==
    IF id = self.src THEN Ok(<<self.src_interface, self.dst_interface>>)
    ELSE IF id = self.dst THEN Ok(<<self.dst_interface, self.src_interface>>)
    ELSE Panic

\* as interface_from, the road's length taken for the available length
\* where one interface alone is clamped
interface_from_FullLength(self, id) ==
    IF interfaces_from(self, id) = Panic THEN Panic
    ELSE LET my_interf    == Val(interfaces_from(self, id))[1]
             other_interf == Val(interfaces_from(self, id))[2]
             l    == self.length - One
             half == l \div 2
         IN  Ok(IF my_interf + other_interf > l
                THEN IF my_interf > half /\ other_interf > half
                     THEN half
                     ELSE IF my_interf > half
                          THEN self.length - other_interf
                          ELSE my_interf
                ELSE my_interf)

\* as interface_from, an interface clamped whenever the two together exceed
\* the available length
interface_from_NoHalfTest(self, id) ==
    IF interfaces_from(self, id) = Panic THEN Panic
    ELSE LET my_interf    == Val(interfaces_from(self, id))[1]
             other_interf == Val(interfaces_from(self, id))[2]
             l    == self.length - One
             half == l \div 2
         IN  Ok(IF my_interf + other_interf > l
                THEN IF my_interf > half /\ other_interf > half
                     THEN half
                     ELSE l - other_interf
                ELSE my_interf)

interface_from(self, id) ==
    IF interfaces_from(self, id) = Panic THEN Panic
    ELSE LET my_interf    == Val(interfaces_from(self, id))[1]
             other_interf == Val(interfaces_from(self, id))[2]
             l    == self.length - One
             half == l \div 2
         IN  Ok(IF my_interf + other_interf > l
                THEN IF my_interf > half /\ other_interf > half
                     THEN half
                     ELSE IF my_interf > half
                          THEN l - other_interf
                          ELSE my_interf
                ELSE my_interf)

\* set_interface: the road after the call, or Panic
set_interface(self, id, v) ==
    IF id = self.src THEN Ok([self EXCEPT !.src_interface = v])
    ELSE IF id = self.dst THEN Ok([self EXCEPT !.dst_interface = v])
    ELSE Panic

\* max_interface: the road after the call, or Panic
max_interface(self, id, v) ==
    IF id = self.src THEN Ok([self EXCEPT !.src_interface = Max(@, v)])
    ELSE IF id = self.dst THEN Ok([self EXCEPT !.dst_interface = Max(@, v)])
    ELSE Panic

\* Option::unwrap of a direction: a degenerate segment has none
UnwrapDir(d) == IF d = 0 THEN Panic ELSE Ok(d)

\* Vec2 negation under the Option
NegDir(o) == IF o = Panic THEN Panic ELSE Ok(-Val(o))

orientation_from(self, id) ==
    IF id = self.src THEN UnwrapDir(first_dir(self.points))
    ELSE IF id = self.dst THEN NegDir(UnwrapDir(last_dir(self.points)))
    ELSE Panic

incoming_lanes_to(self, id) ==
    IF id = self.src THEN Ok(self.lanes_backward)
    ELSE IF id = self.dst THEN Ok(self.lanes_forward)
    ELSE Panic

\* as outgoing_lanes_from, the forward list given at either end
outgoing_lanes_from_AlwaysForward(self, id) ==
    IF id = self.src THEN Ok(self.lanes_forward)
    ELSE IF id = self.dst THEN Ok(self.lanes_forward)
    ELSE Panic

outgoing_lanes_from(self, id) ==
    IF id = self.src THEN Ok(self.lanes_forward)
    ELSE IF id = self.dst THEN Ok(self.lanes_backward)
    ELSE Panic

\* as other_end, an intersection off the road answered with the road's src
other_end_Lenient(self, my_end) ==
    IF self.src = my_end THEN Ok(self.dst)
    ELSE IF self.dst = my_end THEN Ok(self.src)
    ELSE Ok(self.src)

other_end(self, my_end) ==
    IF self.src = my_end THEN Ok(self.dst)
    ELSE IF self.dst = my_end THEN Ok(self.src)
    ELSE Panic

-----------------------------------------------------------------------------
(* Egregoria: the World, the Resources and the schedule (egregoria/lib.rs). *)
(* The World is the set of its entities.  The Resources hold, for every    *)
(* resource type, None or Some(value).  The FrameLog is the set of the     *)
(* runs that have entries in it, the RenderStats the number of samples.    *)

\* the resource types followed: the ones run() and load_from_disk touch
ResourceTypes ==
    {"FrameLog", "RenderStats", "ParCommandBuffer", "ParkingManagement", "Map"}

\* T::default()
Default(T) ==
    IF T = "ParCommandBuffer" THEN [to_delete |-> {}, to_add |-> 0]
    ELSE IF T = "FrameLog" THEN {}
    ELSE IF T = "RenderStats" THEN 0
    ELSE "default"

EgregoriaDefault ==
    [world     |-> {},
     schedule  |-> << >>,
     resources |-> [T \in ResourceTypes |-> None]]

insert(self, T, res) == [self EXCEPT !.resources[T] = Some(res)]

\* SeqSchedule::add_system
add_system(self, system) == [self EXCEPT !.schedule = Append(@, system)]

RECURSIVE AddSystems(_, _)
AddSystems(self, systems) ==
    IF systems = << >> THEN self
    ELSE AddSystems(add_system(self, Head(systems)), Tail(systems))

\* the systems Egregoria::init registers, in its order
InitSystems ==
    <<"vehicle_state_update_system", "vehicle_decision_system",
      "itinerary_update_system", "vehicle_cleanup_system",
      "pedestrian_decision_system", "run_scenario_system",
      "kinematics_apply_system", "coworld_synchronize_system",
      "coworld_maintain_system">>

\* The accessors of one resource that are alive: the shared ones and the
\* exclusive ones (the borrow state of the resource's cell).
NoBorrow == [readers |-> 0, writers |-> 0]
NoBorrows == [T \in ResourceTypes |-> NoBorrow]

\* Resources::get: None for an absent resource; a shared accessor, unless
\* an exclusive one is alive, which is a panic
ResourcesGet(res, b) ==
    IF res = None THEN [ret |-> Ok(None), b |-> b]
    ELSE IF b.writers > 0 THEN [ret |-> Panic, b |-> b]
    ELSE [ret |-> Ok(res), b |-> [b EXCEPT !.readers = @ + 1]]

\* as ResourcesGetMut, the accessors alive not looked at
ResourcesGetMut_Unchecked(res, b) ==
    IF res = None THEN [ret |-> Ok(None), b |-> b]
    ELSE [ret |-> Ok(res), b |-> [b EXCEPT !.writers = @ + 1]]

\* Resources::get_mut: None for an absent resource; an exclusive accessor,
\* unless any accessor is alive, which is a panic
ResourcesGetMut(res, b) ==
    IF res = None THEN [ret |-> Ok(None), b |-> b]
    ELSE IF b.readers > 0 \/ b.writers > 0 THEN [ret |-> Panic, b |-> b]
    ELSE [ret |-> Ok(res), b |-> [b EXCEPT !.writers = @ + 1]]

\* Option::unwrap on the result of get or get_mut
UnwrapAccess(r) ==
    IF r.ret = Ok(None) THEN [r EXCEPT !.ret = Panic] ELSE r

\* as EgregoriaInit, the FrameLog not inserted
EgregoriaInit_NoFrameLog ==
    LET s0 == EgregoriaDefault
        s1 == insert(s0, "RenderStats", Default("RenderStats"))
        s2 == insert(s1, "ParkingManagement", Default("ParkingManagement"))
        s4 == insert(s2, "ParCommandBuffer", Default("ParCommandBuffer"))
    IN  AddSystems(s4, InitSystems)

\* Egregoria::init
EgregoriaInit ==
    LET s0 == EgregoriaDefault
        s1 == insert(s0, "RenderStats", Default("RenderStats"))
        s2 == insert(s1, "ParkingManagement", Default("ParkingManagement"))
        s3 == insert(s2, "FrameLog", Default("FrameLog"))
        s4 == insert(s3, "ParCommandBuffer", Default("ParCommandBuffer"))
    IN  AddSystems(s4, InitSystems)

\* self.resources.get().unwrap()
read(self, T) ==
    IF self.resources[T] = None THEN Panic ELSE Ok(Val(self.resources[T]))

\* self.resources.get_mut().unwrap()
write(self, T) ==
    IF self.resources[T] = None THEN Panic ELSE Ok(Val(self.resources[T]))

\* as try_write, the Option unwrapped
try_write_Unwrapping(self, T) ==
    IF self.resources[T] = None THEN Panic ELSE Ok(self.resources[T])

\* self.resources.get_mut(): the Option is handed to the caller
try_write(self, T) == Ok(self.resources[T])

\* self.resources.get_mut_or_insert_with(T::default): the instance after the
\* call and the value reached
write_or_default(self, T) ==
    LET after == IF self.resources[T] = None THEN insert(self, T, Default(T))
                 ELSE self
    IN  [goria |-> after, ret |-> Ok(Val(after.resources[T]))]

\* the ParCommandBuffer resource of the instance
Buffer(self) == Val(self.resources["ParCommandBuffer"])

\* as kill, the entity removed from the World at once
kill_AtOnce(self, e) == [self EXCEPT !.world = @ \ {e}]

\* ParCommandBuffer::kill(e), by a system: the deletion is buffered
kill(self, e) ==
    [self EXCEPT !.resources["ParCommandBuffer"] =
        Some([Buffer(self) EXCEPT !.to_delete = @ \cup {e}])]

\* ParCommandBuffer::add, by a system: the creation is buffered
add(self) ==
    [self EXCEPT !.resources["ParCommandBuffer"] =
        Some([Buffer(self) EXCEPT !.to_add = @ + 1])]

\* as apply, the buffer left as it was
apply_KeepsBuffer(self, next) ==
    [self EXCEPT !.world = (@ \ Buffer(self).to_delete)
                             \cup (next..(next + Buffer(self).to_add - 1))]

\* ParCommandBuffer::apply(goria): the buffered deletions and creations
\* reach the World, the created entities being next, next + 1, ..; the
\* buffer is left empty
apply(self, next) ==
    [self EXCEPT !.world = (@ \ Buffer(self).to_delete)
                             \cup (next..(next + Buffer(self).to_add - 1)),
                 !.resources["ParCommandBuffer"] =
                     Some(Default("ParCommandBuffer"))]

\* as RunMayStart, a run started from within a running system
RunMayStart_Nested(p) == p \in {"Idle", "Running"}

\* run(&mut self): the exclusive borrow that a run holds until it returns;
\* systems are handed the World and the Resources, not the instance
RunMayStart(p) == p = "Idle"

\* common::saveload::load / load_seed: the content of a file that is there
\* and can be read, None for a missing or corrupt file
load(file) == IF file = "ok" THEN Some("loaded") ELSE None

\* as UnwrapOrDefault, what a readable file holds given in any case
UnwrapOrDefault_Loaded(o, T) == IF o = None THEN "loaded" ELSE Val(o)

\* Option::unwrap_or_default / saveload::load_or_default
UnwrapOrDefault(o, T) == IF o = None THEN Default(T) ELSE Val(o)

\* World::move_from(&mut w, &any()): the entities of w are merged in
move_from(world, w) == world \cup w

\* load_from_disk(goria), the files being as `files` says and the saved
\* world holding the entities `saved`.  deserialize_colliders acts on the
\* CollisionWorld only, which is not followed here.
load_from_disk(self, files, saved) ==
    LET g1 == insert(self, "Map", UnwrapOrDefault(load(files.map), "Map"))
        g2 == insert(g1, "ParkingManagement",
                     UnwrapOrDefault(load(files.parking), "ParkingManagement"))
    IN  IF load(files.world) = None THEN g2
        ELSE [g2 EXCEPT !.world = move_from(@, saved)]

-----------------------------------------------------------------------------
(* Bounds and the inputs drawn from them *)

MaxDay == 2         \* days from which seconds and DayTimes are drawn
Margin == 2         \* seconds drawn on each side of an hour boundary
MaxRd == 4          \* largest real delta of one advance, in 1/TimeScale s
MaxFreq == 4        \* largest period handed to tick
MaxTime == 24       \* the clock stops advancing this many seconds after 0
LoadMargin == 2     \* seconds before 2^31 at which a clock starts
NumInter == 2       \* intersections of the map
PosStep == 10       \* distance between the two positions of an intersection
MaxRoads == 2       \* roads built
MaxLanes == 3       \* lanes in the lane store after which add_lane stops
MaxEntities == 2    \* entities the World ever allocates
MaxSystems == 10    \* systems in the schedule after which add_system stops
MaxRuns == 3        \* run() calls on the instance
MaxGuards == 2      \* shared accessors of one resource alive at a time

\* i32 second counts around every hour boundary of the first days, and the
\* largest ones an i32 holds
SecondsSamples ==
    {x \in {d * SECONDS_PER_DAY + h * SECONDS_PER_HOUR + o :
                d \in 0..MaxDay, h \in 0..(HOURS_PER_DAY - 1),
                o \in (-Margin)..Margin} : x >= 0}
    \cup {I32Max - o : o \in 0..Margin}

HourSamples == {0, 1, 5, 12, 22, 23}
SecondSamples == {0, 1800, 3599}
TimesOfDay == HourSamples \X SecondSamples

DayTimeSamples ==
    [day : 0..MaxDay, hour : HourSamples, second : SecondSamples]

Freqs == 1..MaxFreq

\* timestamps a clock is started from: zero, and shortly before 2^31
LoadedTimestamps ==
    {Ts(0, 0, 0)}
    \cup {Ts(0, I32Max - k, 0) : k \in 0..LoadMargin}

IntersectionIDs == 1..NumInter

\* the ids handed to the calls that take an IntersectionID: those of the
\* intersections, and one more
QueryIDs == 1..(NumInter + 1)

Positions == {0, PosStep * One}

\* the interior points of the polyline handed to Road::make: none, or one
MidPoints == {<< >>, <<PosStep * One>>}

LanePatterns ==
    {[lanes_forward |-> <<"Driving">>, lanes_backward |-> << >>],
     [lanes_forward |-> <<"Walking">>, lanes_backward |-> <<"Driving">>],
     [lanes_forward |-> <<"Driving", "Walking">>,
      lanes_backward |-> <<"Walking">>]}

\* the patterns roads are made of where only make and add_lane are called:
\* also a pattern with no forward lane, and one with no lane at all
MakePatterns ==
    LanePatterns \cup
    {[lanes_forward |-> << >>, lanes_backward |-> <<"Walking">>],
     [lanes_forward |-> << >>, lanes_backward |-> << >>]}

OneLanePattern == {[lanes_forward |-> <<"Driving">>, lanes_backward |-> << >>]}

InterfaceValues == {v * One : v \in {-1, 0, 3, 12}}
EndInterfaceValues == {12 * One}

\* a save file is there and readable, or missing, or corrupt
FileStates == {"ok", "missing", "corrupt"}
SaveFiles == [map : FileStates, parking : FileStates, world : FileStates]

\* what a system does when it runs: nothing, or the deletion of an entity
\* of the World or the creation of an entity is buffered
Effects(world) ==
    {[kind |-> "none", e |-> 0], [kind |-> "add", e |-> 0]}
        \cup {[kind |-> "kill", e |-> e] : e \in world}

-----------------------------------------------------------------------------
(* Initial states *)

DayIdle == secs = 0 /\ dt = None /\ gs = None

RecIdle ==
    /\ interval = RecTimeIntervalNew(<<0, 0>>, <<0, 0>>)
    /\ tq = None
    /\ dist = None

ClockIdle == time = GameTimeNew(0, Ts(0, 0, 0)) /\ prev = None

RoadIdle ==
    /\ intersections = [i \in IntersectionIDs |-> 0]
    /\ roads = << >>
    /\ lanes = << >>
    /\ panicked = FALSE
    /\ lastOp = [op |-> "init", road |-> 0, inter |-> 0]
    /\ ret = None

\* the instance Egregoria::init returns, nothing called on it
KernelIdle ==
    /\ goria = EgregoriaInit
    /\ phase = "Idle"
    /\ pc = 0
    /\ executed = << >>
    /\ marked = {}
    /\ fresh = 1
    /\ runs = 0
    /\ borrows = NoBorrows
    /\ call = [op |-> "init", arg |-> "", ret |-> None]
    /\ aborted = FALSE

TimeIdle == DayIdle /\ RecIdle /\ ClockIdle /\ KernelIdle

\* an empty map whose intersections lie at distinct positions
InitRoad ==
    /\ intersections = [i \in IntersectionIDs |-> ((i - 1) % 2) * PosStep * One]
    /\ roads = << >>
    /\ lanes = << >>
    /\ panicked = FALSE
    /\ lastOp = [op |-> "init", road |-> 0, inter |-> 0]
    /\ ret = None
    /\ TimeIdle

InitDayTime ==
    /\ secs \in SecondsSamples
    /\ dt = None
    /\ gs = None
    /\ RecIdle
    /\ ClockIdle
    /\ RoadIdle
    /\ KernelIdle

InitRec ==
    /\ interval \in {RecTimeIntervalNew(s, e) : s \in TimesOfDay, e \in TimesOfDay}
    /\ tq = None
    /\ dist = None
    /\ DayIdle
    /\ ClockIdle
    /\ RoadIdle
    /\ KernelIdle

InitClock == DayIdle /\ RecIdle /\ ClockIdle /\ RoadIdle /\ KernelIdle

InitKernel == DayIdle /\ RecIdle /\ ClockIdle /\ RoadIdle /\ KernelIdle

InitClockLoaded ==
    /\ time \in {GameTimeNew(0, ts) : ts \in LoadedTimestamps}
    /\ prev = None
    /\ DayIdle
    /\ RecIdle
    /\ RoadIdle
    /\ KernelIdle

-----------------------------------------------------------------------------
(* Actions: DayTime *)

CallDayTimeNew ==
    /\ dt = None
    /\ dt' = Some(DayTimeNew(secs))
    /\ UNCHANGED <<secs, gs, recVars, clockVars, roadVars, kernelVars>>

CallGamesec ==
    /\ IsSome(dt)
    /\ gs = None
    /\ gs' = Some(gamesec(Val(dt)))
    /\ UNCHANGED <<secs, dt, recVars, clockVars, roadVars, kernelVars>>

(* Actions: RecTimeInterval *)

CallRecTimeIntervalNew(s, e) ==
    /\ interval' = RecTimeIntervalNew(s, e)
    /\ tq' = None
    /\ dist' = None
    /\ UNCHANGED <<dayVars, clockVars, roadVars, kernelVars>>

CallDistUntil(t) ==
    /\ tq' = Some(t)
    /\ dist' = Some(dist_until(interval, t))
    /\ UNCHANGED <<interval, dayVars, clockVars, roadVars, kernelVars>>

\* A write to one of the public fields start_hour, start_second, end_hour,
\* end_second (an assignment, or a drag of the field's value in the
\* inspector): the private field overlap is left as it is.
SetField(f, v) ==
    /\ interval' = [interval EXCEPT ![f] = v]
    /\ tq' = None
    /\ dist' = None
    /\ UNCHANGED <<dayVars, clockVars, roadVars, kernelVars>>

(* Actions: GameTime *)

\* One advance of the clock by the real delta rd (in 1/TimeScale s): the
\* GameTime resource is replaced by one built from the accumulated timestamp.
Advance(rd) ==
    /\ \/ time.timestamp.lo < MaxTime
       \/ time.timestamp.lo >= I32Max - LoadMargin
    /\ time' = GameTimeNew(rd, TsAdd(time.timestamp,
                                     SECONDS_PER_REALTIME_SECOND * rd))
    /\ prev' = Some(time.timestamp)
    /\ UNCHANGED <<dayVars, recVars, roadVars, kernelVars>>

(* Actions: the road map *)

\* Road::make(src, dst, points, pattern, ..): the polyline runs from the
\* position of src to the position of dst through mid, and no two
\* consecutive points of it coincide (add_lane unwraps its directions)
CallRoadMake(src, dst, mid, pattern) ==
    LET pts  == <<intersections[src]>> \o mid \o <<intersections[dst]>>
        id   == Len(roads) + 1
        made == RoadMake(src, dst, pts, pattern, intersections, lanes, id)
    IN  /\ ~panicked
        /\ Len(roads) < MaxRoads
        /\ first_dir(pts) # 0
        /\ last_dir(pts) # 0
        /\ roads' = Append(roads, made.road)
        /\ lanes' = made.lanes
        /\ lastOp' = [op |-> "make", road |-> id, inter |-> 0]
        /\ ret' = Ok(id)
        /\ UNCHANGED <<intersections, panicked, timeVars>>

CallAddLane(r, kind, direction) ==
    LET added == add_lane(roads[r], lanes, kind, direction)
    IN  /\ ~panicked
        /\ Len(lanes) < MaxLanes
        /\ first_dir(roads[r].points) # 0
        /\ last_dir(roads[r].points) # 0
        /\ roads' = [roads EXCEPT ![r] = added.road]
        /\ lanes' = added.lanes
        /\ lastOp' = [op |-> "add_lane", road |-> r, inter |-> 0]
        /\ ret' = Ok(added.id)
        /\ UNCHANGED <<intersections, panicked, timeVars>>

CallGenPos(r) ==
    LET gen == gen_pos(roads[r], intersections, lanes)
    IN  /\ ~panicked
        /\ roads' = [roads EXCEPT ![r] = gen.road]
        /\ lanes' = gen.lanes
        /\ lastOp' = [op |-> "gen_pos", road |-> r, inter |-> 0]
        /\ ret' = Ok(<< >>)
        /\ UNCHANGED <<intersections, panicked, timeVars>>

CallSetInterface(r, id, v) ==
    /\ ~panicked
    /\ IF set_interface(roads[r], id, v) = Panic
       THEN panicked' = TRUE /\ ret' = Panic /\ UNCHANGED roads
       ELSE /\ roads' = [roads EXCEPT ![r] = Val(set_interface(roads[r], id, v))]
            /\ ret' = Ok(<< >>)
            /\ UNCHANGED panicked
    /\ lastOp' = [op |-> "set_interface", road |-> r, inter |-> id]
    /\ UNCHANGED <<intersections, lanes, timeVars>>

CallMaxInterface(r, id, v) ==
    /\ ~panicked
    /\ IF max_interface(roads[r], id, v) = Panic
       THEN panicked' = TRUE /\ ret' = Panic /\ UNCHANGED roads
       ELSE /\ roads' = [roads EXCEPT ![r] = Val(max_interface(roads[r], id, v))]
            /\ ret' = Ok(<< >>)
            /\ UNCHANGED panicked
    /\ lastOp' = [op |-> "max_interface", road |-> r, inter |-> id]
    /\ UNCHANGED <<intersections, lanes, timeVars>>

\* a call that reads the road: its result is kept, and a panic ends the run
Query(op, r, id, result) ==
    /\ ~panicked
    /\ ret' = result
    /\ panicked' = (result = Panic)
    /\ lastOp' = [op |-> op, road |-> r, inter |-> id]
    /\ UNCHANGED <<intersections, roads, lanes, timeVars>>

CallInterfaceFrom(r, id) ==
    Query("interface_from", r, id, interface_from(roads[r], id))

CallOrientationFrom(r, id) ==
    Query("orientation_from", r, id, orientation_from(roads[r], id))

CallIncomingLanesTo(r, id) ==
    Query("incoming_lanes_to", r, id, incoming_lanes_to(roads[r], id))

CallOutgoingLanesFrom(r, id) ==
    Query("outgoing_lanes_from", r, id, outgoing_lanes_from(roads[r], id))

CallOtherEnd(r, id) ==
    Query("other_end", r, id, other_end(roads[r], id))

\* the roads of the store from the r-th on, regenerated where they end at i
RECURSIVE Regenerate(_, _, _, _)
Regenerate(rl, inters, i, r) ==
    IF r > Len(rl.roads) THEN rl
    ELSE IF i \in {rl.roads[r].src, rl.roads[r].dst}
         THEN LET gen == gen_pos(rl.roads[r], inters, rl.lanes)
              IN  Regenerate([roads |-> [rl.roads EXCEPT ![r] = gen.road],
                              lanes |-> gen.lanes], inters, i, r + 1)
         ELSE Regenerate(rl, inters, i, r + 1)

\* The intersection i is moved to p, and the geometry of every road that
\* ends at it is regenerated.
MoveIntersection(i, p) ==
    LET inters == [intersections EXCEPT ![i] = p]
        regen  == Regenerate([roads |-> roads, lanes |-> lanes], inters, i, 1)
    IN  /\ ~panicked
        /\ intersections[i] # p
        /\ intersections' = inters
        /\ roads' = regen.roads
        /\ lanes' = regen.lanes
        /\ lastOp' = [op |-> "move", road |-> 0, inter |-> i]
        /\ ret' = Ok(<< >>)
        /\ UNCHANGED <<panicked, timeVars>>

-----------------------------------------------------------------------------
(* Actions: the Egregoria instance *)

\* run and the calls from outside a run return with no accessor left alive
NoKernelOther == UNCHANGED <<dayVars, recVars, clockVars, roadVars, borrows>>

\* as RunBegin, the FrameLog left as it is
RunBegin_NoClear ==
    /\ ~aborted
    /\ RunMayStart(phase)
    /\ runs < MaxRuns
    /\ runs' = runs + 1
    /\ phase' = "Running"
    /\ pc' = 1
    /\ executed' = << >>
    /\ marked' = {}
    /\ call' = [op |-> "run", arg |-> "", ret |-> None]
    /\ UNCHANGED <<goria, aborted, fresh>>
    /\ NoKernelOther

\* run(), line 76: the FrameLog is cleared and the pass begins
RunBegin ==
    /\ ~aborted
    /\ RunMayStart(phase)
    /\ runs < MaxRuns
    /\ runs' = runs + 1
    /\ IF read(goria, "FrameLog") = Panic
       THEN /\ aborted' = TRUE
            /\ call' = [op |-> "run", arg |-> "FrameLog", ret |-> Panic]
            /\ UNCHANGED <<goria, phase, pc, executed, marked>>
       ELSE /\ goria' = insert(goria, "FrameLog", {})
            /\ phase' = "Running"
            /\ pc' = 1
            /\ executed' = << >>
            /\ marked' = {}
            /\ call' = [op |-> "run", arg |-> "", ret |-> None]
            /\ UNCHANGED aborted
    /\ UNCHANGED fresh
    /\ NoKernelOther

\* run(), line 78, SeqSchedule::execute: the next system of the schedule
\* runs on the World and the Resources
ExecSystem(effect) ==
    /\ ~aborted
    /\ phase = "Running"
    /\ pc <= Len(goria.schedule)
    /\ effect \in Effects(goria.world)
    /\ effect.kind = "add" => fresh + Buffer(goria).to_add <= MaxEntities
    /\ goria' = LET logged == insert(goria, "FrameLog",
                                     Val(goria.resources["FrameLog"])
                                         \cup {runs})
                IN  IF effect.kind = "kill" THEN kill(logged, effect.e)
                    ELSE IF effect.kind = "add" THEN add(logged)
                    ELSE logged
    /\ marked' = IF effect.kind = "kill" THEN marked \cup {effect.e} ELSE marked
    /\ executed' = Append(executed, goria.schedule[pc])
    /\ pc' = pc + 1
    /\ UNCHANGED <<phase, fresh, runs, call, aborted>>
    /\ NoKernelOther

\* run(), line 78: SeqSchedule::execute returns after the last system
ExecuteReturns ==
    /\ ~aborted
    /\ phase = "Running"
    /\ pc > Len(goria.schedule)
    /\ phase' = "ApplyingDeferred"
    /\ UNCHANGED <<goria, pc, executed, marked, fresh, runs, call, aborted>>
    /\ NoKernelOther

\* as ApplyAndReturn, the buffer not applied
ApplyAndReturn_NoApply ==
    /\ ~aborted
    /\ phase = "ApplyingDeferred"
    /\ goria' = insert(goria, "RenderStats",
                       Val(goria.resources["RenderStats"]) + 1)
    /\ phase' = "Idle"
    /\ pc' = 0
    /\ UNCHANGED <<executed, marked, fresh, runs, call, aborted>>
    /\ NoKernelOther

\* run(), lines 79-83: the buffer is applied, the duration of the pass is
\* added to the RenderStats, and run() returns
ApplyAndReturn ==
    LET applied == apply(goria, fresh)
    IN  /\ ~aborted
        /\ phase = "ApplyingDeferred"
        /\ fresh' = fresh + Buffer(goria).to_add
        /\ IF write(applied, "RenderStats") = Panic
           THEN /\ goria' = applied
                /\ aborted' = TRUE
                /\ UNCHANGED <<phase, pc>>
           ELSE /\ goria' = insert(applied, "RenderStats",
                                   Val(write(applied, "RenderStats")) + 1)
                /\ phase' = "Idle"
                /\ pc' = 0
                /\ UNCHANGED aborted
        /\ UNCHANGED <<executed, marked, runs, call>>
        /\ NoKernelOther

\* a call on the instance from outside a run
External(op, arg, after, result) ==
    /\ ~aborted
    /\ phase = "Idle"
    /\ goria' = after
    /\ call' = [op |-> op, arg |-> arg, ret |-> result]
    /\ aborted' = (result = Panic)
    /\ UNCHANGED <<phase, pc, executed, marked, runs>>
    /\ NoKernelOther

CallRead(T) ==
    External("read", T, goria, read(goria, T)) /\ UNCHANGED fresh

CallWrite(T) ==
    External("write", T, goria, write(goria, T)) /\ UNCHANGED fresh

CallTryWrite(T) ==
    External("try_write", T, goria, try_write(goria, T)) /\ UNCHANGED fresh

CallWriteOrDefault(T) ==
    /\ External("write_or_default", T, write_or_default(goria, T).goria,
                write_or_default(goria, T).ret)
    /\ UNCHANGED fresh

CallInsert(T) ==
    External("insert", T, insert(goria, T, Default(T)), Ok(<< >>))
        /\ UNCHANGED fresh

CallAddSystem ==
    /\ Len(goria.schedule) < MaxSystems
    /\ External("add_system", "extra_system",
                add_system(goria, "extra_system"), Ok(<< >>))
    /\ UNCHANGED fresh

\* load_from_disk: a saved world that can be read holds one entity, unless
\* the World has allocated all of its entities
CallLoadFromDisk(files) ==
    LET saved == IF fresh <= MaxEntities THEN {fresh} ELSE {}
    IN  /\ External("load_from_disk", files,
                    load_from_disk(goria, files, saved), Ok(<< >>))
        /\ fresh' = IF load(files.world) = None
                    THEN fresh ELSE fresh + Cardinality(saved)

-----------------------------------------------------------------------------
(* Specifications *)

RoadIDs == 1..Len(roads)

\* the map is built and edited; the interfaces keep their initial value
NextRoad ==
    \/ \E src \in IntersectionIDs, dst \in IntersectionIDs,
          mid \in MidPoints, pattern \in LanePatterns :
            CallRoadMake(src, dst, mid, pattern)
    \/ \E r \in RoadIDs, kind \in LaneKinds, direction \in {"Forward", "Backward"} :
            CallAddLane(r, kind, direction)
    \/ \E r \in RoadIDs : CallGenPos(r)
    \/ \E i \in IntersectionIDs, p \in Positions : MoveIntersection(i, p)

SpecRoad == InitRoad /\ [][NextRoad]_vars

\* one road of one lane is built and moved, and its interfaces are set
NextInterface ==
    \/ \E src \in IntersectionIDs, dst \in IntersectionIDs,
          mid \in MidPoints, pattern \in OneLanePattern :
            roads = << >> /\ CallRoadMake(src, dst, mid, pattern)
    \/ \E r \in RoadIDs : CallGenPos(r)
    \/ \E r \in RoadIDs, id \in QueryIDs, v \in InterfaceValues :
            CallSetInterface(r, id, v)
    \/ \E r \in RoadIDs, id \in QueryIDs, v \in InterfaceValues :
            CallMaxInterface(r, id, v)
    \/ \E i \in IntersectionIDs, p \in Positions : MoveIntersection(i, p)

SpecInterface == InitRoad /\ [][NextInterface]_vars

\* roads are made and lanes are added to them
NextMake ==
    \/ \E src \in IntersectionIDs, dst \in IntersectionIDs,
          mid \in MidPoints, pattern \in MakePatterns :
            CallRoadMake(src, dst, mid, pattern)
    \/ \E r \in RoadIDs, kind \in LaneKinds, direction \in {"Forward", "Backward"} :
            CallAddLane(r, kind, direction)

SpecMake == InitRoad /\ [][NextMake]_vars

\* one road is built, lanes are added to it, and its ends are asked for
NextEnds ==
    \/ \E src \in IntersectionIDs, dst \in IntersectionIDs,
          mid \in MidPoints, pattern \in LanePatterns :
            roads = << >> /\ CallRoadMake(src, dst, mid, pattern)
    \/ \E r \in RoadIDs, kind \in LaneKinds, direction \in {"Forward", "Backward"} :
            CallAddLane(r, kind, direction)
    \/ \E r \in RoadIDs, id \in QueryIDs, v \in EndInterfaceValues :
            CallSetInterface(r, id, v)
    \/ \E r \in RoadIDs, id \in QueryIDs, v \in EndInterfaceValues :
            CallMaxInterface(r, id, v)
    \/ \E r \in RoadIDs, id \in QueryIDs : CallInterfaceFrom(r, id)
    \/ \E r \in RoadIDs, id \in QueryIDs : CallOrientationFrom(r, id)
    \/ \E r \in RoadIDs, id \in QueryIDs : CallIncomingLanesTo(r, id)
    \/ \E r \in RoadIDs, id \in QueryIDs : CallOutgoingLanesFrom(r, id)
    \/ \E r \in RoadIDs, id \in QueryIDs : CallOtherEnd(r, id)

SpecEnds == InitRoad /\ [][NextEnds]_vars

\* the instance is run, and between runs it is read, written and loaded
\* an accessor is asked for while others may be alive (through &self)
Acquire(op, T, r) ==
    /\ ~aborted
    /\ borrows' = [borrows EXCEPT ![T] = r.b]
    /\ call' = [op |-> op, arg |-> T, ret |-> r.ret]
    /\ aborted' = (r.ret = Panic)
    /\ UNCHANGED <<goria, phase, pc, executed, marked, fresh, runs>>
    /\ UNCHANGED <<dayVars, recVars, clockVars, roadVars>>

\* read, its accessor kept
AcquireRead(T) ==
    /\ borrows[T].readers < MaxGuards
    /\ Acquire("read", T,
               UnwrapAccess(ResourcesGet(goria.resources[T], borrows[T])))

\* write, its accessor kept
AcquireWrite(T) ==
    Acquire("write", T,
            UnwrapAccess(ResourcesGetMut(goria.resources[T], borrows[T])))

\* try_write, its accessor kept
AcquireTryWrite(T) ==
    Acquire("try_write", T, ResourcesGetMut(goria.resources[T], borrows[T]))

\* write_or_default takes &mut self: no accessor of any resource is alive
AcquireWriteOrDefault(T) ==
    /\ ~aborted
    /\ borrows = NoBorrows
    /\ goria' = write_or_default(goria, T).goria
    /\ borrows' = [borrows EXCEPT ![T].writers = 1]
    /\ call' = [op |-> "write_or_default", arg |-> T,
                ret |-> write_or_default(goria, T).ret]
    /\ UNCHANGED <<phase, pc, executed, marked, fresh, runs, aborted>>
    /\ UNCHANGED <<dayVars, recVars, clockVars, roadVars>>

\* an accessor goes out of scope
Drop(T, kind) ==
    /\ ~aborted
    /\ borrows[T][kind] > 0
    /\ borrows' = [borrows EXCEPT ![T][kind] = @ - 1]
    /\ call' = [op |-> "drop", arg |-> T, ret |-> None]
    /\ UNCHANGED <<goria, phase, pc, executed, marked, fresh, runs, aborted>>
    /\ UNCHANGED <<dayVars, recVars, clockVars, roadVars>>

NextBorrow ==
    \/ \E T \in ResourceTypes : AcquireRead(T)
    \/ \E T \in ResourceTypes : AcquireWrite(T)
    \/ \E T \in ResourceTypes : AcquireTryWrite(T)
    \/ \E T \in {"Map"} : AcquireWriteOrDefault(T)
    \/ \E T \in ResourceTypes, kind \in {"readers", "writers"} : Drop(T, kind)

SpecBorrow == InitKernel /\ [][NextBorrow]_vars

NextKernel ==
    \/ RunBegin
    \/ \E effect \in Effects(goria.world) : ExecSystem(effect)
    \/ ExecuteReturns
    \/ ApplyAndReturn
    \/ \E T \in ResourceTypes : CallRead(T)
    \/ \E T \in ResourceTypes : CallWrite(T)
    \/ \E T \in ResourceTypes : CallTryWrite(T)
    \/ \E T \in {"Map"} : CallWriteOrDefault(T)
    \/ \E T \in {"ParCommandBuffer"} : CallInsert(T)
    \/ CallAddSystem
    \/ \E files \in SaveFiles : CallLoadFromDisk(files)

SpecKernel == InitKernel /\ [][NextKernel]_vars

NextDayTime == CallDayTimeNew \/ CallGamesec

SpecDayTime == InitDayTime /\ [][NextDayTime]_vars

NextRec ==
    \/ \E s \in TimesOfDay, e \in TimesOfDay : CallRecTimeIntervalNew(s, e)
    \/ \E t \in DayTimeSamples : CallDistUntil(t)

SpecRec == InitRec /\ [][NextRec]_vars

NextRecEdit ==
    \/ NextRec
    \/ \E v \in HourSamples : SetField("start_hour", v)
    \/ \E v \in HourSamples : SetField("end_hour", v)
    \/ \E v \in SecondSamples : SetField("start_second", v)
    \/ \E v \in SecondSamples : SetField("end_second", v)

SpecRecEdit == InitRec /\ [][NextRecEdit]_vars

NextClock == \E rd \in 1..MaxRd : Advance(rd)

SpecClock == InitClock /\ [][NextClock]_vars

SpecClockLoaded == InitClockLoaded /\ [][NextClock]_vars

-----------------------------------------------------------------------------
(* Properties of the clock *)

\* seconds since midnight of the time of day h hours s seconds
ToD(h, s) == h * SECONDS_PER_HOUR + s

StartOf(iv) == ToD(iv.start_hour, iv.start_second)
EndOf(iv) == ToD(iv.end_hour, iv.end_second)
Wraps(iv) == EndOf(iv) < StartOf(iv)

\* t lies strictly inside the interval on t's day
StrictlyInside(iv, t) ==
    LET x == ToD(t.hour, t.second)
    IN  IF Wraps(iv)
        THEN x > StartOf(iv) \/ x < EndOf(iv)
        ELSE StartOf(iv) < x /\ x < EndOf(iv)

\* t lies outside the interval: before the start or after the end, or, for
\* an interval that wraps past midnight, in the gap between end and start
Outside(iv, t) ==
    LET x == ToD(t.hour, t.second)
    IN  IF Wraps(iv)
        THEN EndOf(iv) < x /\ x < StartOf(iv)
        ELSE x < StartOf(iv) \/ x > EndOf(iv)

\* game seconds from t to the next start of the interval
SecondsToNextStart(iv, t) ==
    LET x == ToD(t.hour, t.second)
    IN  IF x <= StartOf(iv)
        THEN StartOf(iv) - x
        ELSE StartOf(iv) + SECONDS_PER_DAY - x

\* C4: dist_until(t) is 0 for every t strictly inside an interval built by
\* RecTimeInterval::new, whether or not the interval wraps past midnight.
C4_InsideIsZero ==
    (IsSome(tq) /\ StrictlyInside(interval, Val(tq))) => Val(dist) = 0

C4_Witness ==
    /\ IsSome(tq)
    /\ Wraps(interval)
    /\ StrictlyInside(interval, Val(tq))
    /\ ToD(Val(tq).hour, Val(tq).second) < EndOf(interval)
    /\ Val(dist) = 0

\* C5: for every t outside the interval, dist_until(t) is non-negative and
\* is the number of game seconds from t to the interval's next start (the
\* same day before the start or in the gap, the next day after the end).
C5_OutsideIsDistanceToStart ==
    (IsSome(tq) /\ Outside(interval, Val(tq)))
        => /\ Val(dist) >= 0
           /\ Val(dist) = SecondsToNextStart(interval, Val(tq))

C5_Witness ==
    /\ IsSome(tq)
    /\ ~Wraps(interval)
    /\ ToD(Val(tq).hour, Val(tq).second) > EndOf(interval)
    /\ Val(tq).day > 0
    /\ Val(dist) > 0

\* C6: DayTime::new(s).gamesec() = s for every non-negative s.
C6_RoundTrip == IsSome(gs) => Val(gs) = secs

C6_Witness ==
    /\ IsSome(gs)
    /\ Val(dt).day > 0
    /\ Val(dt).hour > 0
    /\ Val(dt).second > 0

\* C8: the cached overlap flag of every RecTimeInterval equals
\* (end_hour, end_second) < (start_hour, start_second).
C8_OverlapNeverStale ==
    interval.overlap =
        (\/ interval.end_hour < interval.start_hour
         \/ /\ interval.end_hour = interval.start_hour
            /\ interval.end_second < interval.start_second)

\* 2^31 = Q31 * SECONDS_PER_DAY + R31
Q31 == I32Max \div SECONDS_PER_DAY
R31 == (I32Max % SECONDS_PER_DAY) + 1

\* DayTime::new(floor(timestamp)) over the unbounded integers
DayTimeOfFloor(ts) ==
    LET rest == ts.hi * R31 + (ts.lo % SECONDS_PER_DAY)
        sod  == rest % SECONDS_PER_DAY
    IN  [day    |-> ts.hi * Q31 + (ts.lo \div SECONDS_PER_DAY)
                        + (rest \div SECONDS_PER_DAY),
         hour   |-> sod \div SECONDS_PER_HOUR,
         second |-> sod % SECONDS_PER_HOUR]

\* C7: in every GameTime, seconds = floor(timestamp) and
\* daytime = DayTime::new(floor(timestamp)), also at and beyond 2^31 s.
C7_DayTimeInSync ==
    /\ time.seconds = [hi |-> time.timestamp.hi, lo |-> time.timestamp.lo]
    /\ time.daytime = DayTimeOfFloor(time.timestamp)

\* the advance from timestamp p to timestamp ts moved across a multiple of
\* freq: some multiple m has p <= m < ts (timestamps below 2^31)
Crossed(p, ts, freq) ==
    \E k \in 0..(ts.lo \div freq) :
        /\ TsLe(p, Ts(0, k * freq, 0))
        /\ TsLt(Ts(0, k * freq, 0), ts)

\* C3: on every advance, tick(freq) is true if and only if the advance
\* moved the timestamp across a multiple of freq.
C3_TickIffCrossed ==
    IsSome(prev) =>
        \A f \in Freqs : tick(time, f) <=> Crossed(Val(prev), time.timestamp, f)

-----------------------------------------------------------------------------
(* Properties of the road model *)

\* C1: for every road, interface_from(src) + interface_from(dst) is at
\* most length - 1.
C1_ClampingInvariant ==
    \A r \in RoadIDs :
        Val(interface_from(roads[r], roads[r].src))
            + Val(interface_from(roads[r], roads[r].dst))
        <= roads[r].length - One

\* the stored interface of the endpoint id of a road, and of its other end
MineAt(road, id) ==
    IF id = road.src THEN road.src_interface ELSE road.dst_interface
OtherAt(road, id) ==
    IF id = road.src THEN road.dst_interface ELSE road.src_interface

\* the tie-break of interface_from(id) on a road whose available length is
\* avail, the interface that alone exceeds its half being clamped to
\* total less the other interface
TieBreak(road, id, avail, total) ==
    LET my    == MineAt(road, id)
        other == OtherAt(road, id)
        got   == Val(interface_from(road, id))
    IN  IF my + other > avail /\ 2 * my > avail /\ 2 * other > avail
        THEN 2 * got = avail
        ELSE IF my + other > avail /\ 2 * my > avail
             THEN got = total - other
             ELSE got = my

\* C2, as claimed: where the two stored interfaces together exceed the
\* available length length - 1, interface_from(id) is half of it if both
\* exceed that half and length - other_interface if only the queried one
\* does; in every other case it is the stored interface.
C2_TieBreakAsClaimed ==
    \A r \in RoadIDs : \A id \in {roads[r].src, roads[r].dst} :
        TieBreak(roads[r], id, roads[r].length - One, roads[r].length)

\* C2, amended: as claimed, but an interface that alone exceeds half the
\* available length is clamped to (length - 1) - other_interface.
C2_TieBreak ==
    \A r \in RoadIDs : \A id \in {roads[r].src, roads[r].dst} :
        TieBreak(roads[r], id, roads[r].length - One, roads[r].length - One)

\* the three cases of the tie-break are met on one road and its two ends
C2_Witness ==
    \E r \in RoadIDs :
        LET road == roads[r]
            l    == road.length - One
        IN  /\ road.src # road.dst
            /\ lastOp.op \in {"set_interface", "max_interface"}
            /\ road.src_interface + road.dst_interface > l
            /\ 2 * road.src_interface > l
            /\ 2 * road.dst_interface <= l
            /\ Val(interface_from(road, road.src)) = l - road.dst_interface
            /\ Val(interface_from(road, road.dst)) = road.dst_interface

\* the sum of the widths of the lanes of the two lists of a road
LaneWidthSum(road) ==
    LET all == road.lanes_forward \o road.lanes_backward
        RECURSIVE upto(_)
        upto(i) == IF i = 0 THEN 0 ELSE upto(i - 1) + lanes[all[i]].width
    IN  upto(Len(all))

\* C9: right after gen_pos on a road, the road's width is the sum of the
\* widths of the lanes of its forward and backward lists.
C9_WidthIsSumAfterGenPos ==
    \A r \in RoadIDs :
        (lastOp.op = "gen_pos" /\ lastOp.road = r)
            => roads[r].width = LaneWidthSum(roads[r])

\* gen_pos has run on a road with lanes in both lists, one of them added
\* by add_lane after the road was made
C9_Witness ==
    \E r \in RoadIDs :
        /\ lastOp.op = "gen_pos"
        /\ lastOp.road = r
        /\ roads[r].lanes_forward # << >>
        /\ roads[r].lanes_backward # << >>
        /\ n_lanes(roads[r]) > Len(roads[r].lane_pattern.lanes_forward)
                                + Len(roads[r].lane_pattern.lanes_backward)
        /\ roads[r].width = LaneWidthSum(roads[r])

\* the cached length and width of a road are those of its polyline between
\* the current positions of its intersections and of its current lanes
InSync(road) ==
    /\ road.length =
         PolyLength([road.points EXCEPT
                        ![1] = intersections[road.src],
                        ![Len(road.points)] = intersections[road.dst]])
    /\ road.width = LaneWidthSum(road)

\* C10: right after Road::make and add_lane on a road, and right after a
\* move of one of its two intersections, the road's cached length and
\* width are not stale.
C10_NeverStale ==
    \A r \in RoadIDs :
        (\/ lastOp.op \in {"make", "add_lane"} /\ lastOp.road = r
         \/ lastOp.op = "move" /\ lastOp.inter \in {roads[r].src, roads[r].dst})
            => InSync(roads[r])


-----------------------------------------------------------------------------
(* Properties of the road's ends and lane lists *)

\* the calls that take the id of an intersection of the road
EndOps == {"interface_from", "set_interface", "max_interface",
           "orientation_from", "incoming_lanes_to", "outgoing_lanes_from",
           "other_end"}

Ends(road) == {road.src, road.dst}

\* C11: a call of interface_from, set_interface, max_interface,
\* orientation_from, incoming_lanes_to, outgoing_lanes_from or other_end
\* with an intersection that is neither the road's src nor its dst panics
\* and returns nothing, and leaves the roads (their stored interfaces and
\* lane lists) and the lane store as they were.
C11_UnrelatedPanics ==
    [][(/\ lastOp'.op \in EndOps
        /\ lastOp'.inter \notin Ends(roads[lastOp'.road]))
       => (/\ panicked'
           /\ ret' = Panic
           /\ roads' = roads
           /\ lanes' = lanes)]_vars

C11_Witness ==
    /\ panicked
    /\ lastOp.op = "other_end"
    /\ lastOp.inter \notin Ends(roads[lastOp.road])
    /\ roads[lastOp.road].lanes_forward # << >>
    /\ roads[lastOp.road].lanes_backward # << >>
    /\ roads[lastOp.road].src_interface # roads[lastOp.road].dst_interface

\* C12: on every road, outgoing_lanes_from(src) and incoming_lanes_to(dst)
\* return the forward lane list, and outgoing_lanes_from(dst) and
\* incoming_lanes_to(src) return the backward lane list.
C12_LaneListsByEnd ==
    \A r \in RoadIDs :
        LET road == roads[r]
            out  == lastOp.op = "outgoing_lanes_from"
            inc  == lastOp.op = "incoming_lanes_to"
        IN  lastOp.road = r =>
              /\ (out /\ lastOp.inter = road.src) => ret = Ok(road.lanes_forward)
              /\ (inc /\ lastOp.inter = road.dst) => ret = Ok(road.lanes_forward)
              /\ (out /\ lastOp.inter = road.dst) => ret = Ok(road.lanes_backward)
              /\ (inc /\ lastOp.inter = road.src) => ret = Ok(road.lanes_backward)

\* every index at which the lane id stands in a lane list of some road
Places(id) ==
    {<<r, d, i>> \in RoadIDs \X {"Forward", "Backward"} \X (1..Len(lanes)) :
        LET list == IF d = "Forward" THEN roads[r].lanes_forward
                    ELSE roads[r].lanes_backward
        IN  i <= Len(list) /\ list[i] = id}

\* C13: after any sequence of Road::make and add_lane calls, every lane id
\* stored on a road stands exactly once in the forward and backward lists
\* of all roads, a lane of a forward list runs from the road's src to its
\* dst, and a lane of a backward list runs from the road's dst to its src.
C13_LaneOwnership ==
    \A r \in RoadIDs :
        LET road == roads[r]
        IN  /\ \A i \in DOMAIN road.lanes_forward :
                 LET id == road.lanes_forward[i]
                 IN  /\ id \in DOMAIN lanes
                     /\ Cardinality(Places(id)) = 1
                     /\ <<lanes[id].src, lanes[id].dst>> = <<road.src, road.dst>>
            /\ \A i \in DOMAIN road.lanes_backward :
                 LET id == road.lanes_backward[i]
                 IN  /\ id \in DOMAIN lanes
                     /\ Cardinality(Places(id)) = 1
                     /\ <<lanes[id].src, lanes[id].dst>> = <<road.dst, road.src>>

C13_Witness ==
    /\ lastOp.op = "add_lane"
    /\ Len(roads) = 2
    /\ roads[lastOp.road].src # roads[lastOp.road].dst
    /\ Len(roads[lastOp.road].lanes_backward) = 2

\* the kinds of the lanes of a lane list
KindsOf(store, list) == [i \in DOMAIN list |-> store[list[i]].kind]

\* C14: Road::make with a pattern of f forward and b backward kinds yields
\* a road whose forward list holds exactly f lanes created by the call,
\* with the kinds of the pattern in its forward order, and whose backward
\* list holds exactly b such lanes in the pattern's backward order;
\* n_lanes() is f + b and is_one_way() holds exactly when f = 0 or b = 0.
C14_MakeFollowsPattern ==
    [][lastOp'.op = "make" =>
        LET road    == roads'[lastOp'.road]
            pattern == road.lane_pattern
            f       == Len(pattern.lanes_forward)
            b       == Len(pattern.lanes_backward)
            before  == Len(lanes)
        IN  /\ road.lanes_forward = [i \in 1..f |-> before + i]
            /\ road.lanes_backward = [i \in 1..b |-> before + f + i]
            /\ Len(lanes') = before + f + b
            /\ KindsOf(lanes', road.lanes_forward) = pattern.lanes_forward
            /\ KindsOf(lanes', road.lanes_backward) = pattern.lanes_backward
            /\ n_lanes(road) = f + b
            /\ is_one_way(road) <=> (f = 0 \/ b = 0)]_vars

C14_Witness ==
    /\ lastOp.op = "make"
    /\ lastOp.road = 2
    /\ roads[2].lane_pattern =
         [lanes_forward |-> <<"Walking">>, lanes_backward |-> <<"Driving">>]
    /\ n_lanes(roads[2]) = 2
    /\ ~is_one_way(roads[2])

\* C15: gen_pos is idempotent: after gen_pos on a road, a second gen_pos
\* with the same intersections and lane store leaves the road (its points,
\* length and width) and every lane's generated geometry as they are.
C15_GenPosIdempotent ==
    lastOp.op = "gen_pos" =>
        gen_pos(roads[lastOp.road], intersections, lanes)
            = [road |-> roads[lastOp.road], lanes |-> lanes]

C15_Witness ==
    /\ lastOp.op = "gen_pos"
    /\ Len(roads[lastOp.road].lanes_forward) = 2
    /\ roads[lastOp.road].lanes_backward # << >>
    /\ roads[lastOp.road].width = LaneWidthSum(roads[lastOp.road])


-----------------------------------------------------------------------------
(* Properties of the Egregoria instance *)

\* a deletion or a creation is buffered and not yet applied
Pending(g) == Buffer(g).to_delete # {} \/ Buffer(g).to_add # 0

\* the step on which run() returns
RunReturns == phase = "ApplyingDeferred" /\ phase' = "Idle"

\* C16: a run() executes every system of the schedule exactly once, in the
\* order of the schedule; the buffered mutations are applied only after the
\* last system has finished and before run() returns, so that none is
\* pending when run() has returned or when the next run() starts.
C16_RunInOrderThenApply ==
    [][/\ phase' \in {"Running", "ApplyingDeferred"} =>
            executed' = SubSeq(goria'.schedule, 1, Len(executed'))
       /\ phase = "Running" =>
            /\ goria'.world = goria.world
            /\ Buffer(goria).to_delete \subseteq Buffer(goria').to_delete
            /\ Buffer(goria).to_add <= Buffer(goria').to_add
       /\ phase' = "ApplyingDeferred" => executed' = goria'.schedule
       /\ RunReturns =>
            /\ executed' = goria'.schedule
            /\ goria'.world = (goria.world \ Buffer(goria).to_delete)
                                \cup (fresh..(fresh' - 1))
            /\ fresh' - fresh = Buffer(goria).to_add
            /\ ~Pending(goria')
       /\ (phase = "Idle" /\ phase' = "Running") => ~Pending(goria)]_vars

C16_Witness ==
    /\ phase = "Idle"
    /\ call.op = "run"
    /\ executed = goria.schedule
    /\ Len(executed) = MaxSystems
    /\ marked # {}
    /\ goria.world # {}
    /\ ~Pending(goria)

\* C17: an entity marked for deletion by a system during a run() is still
\* in the World for every system that runs later in that run(), is absent
\* from the World once that run() has returned, and does not come back.
C17_DeferredDeletion ==
    [][/\ phase' = "Running" => marked' \subseteq goria'.world
       /\ phase' = "Idle" => marked' \cap goria'.world = {}
       /\ \A e \in goria'.world \ goria.world : e >= fresh]_vars

C17_Witness ==
    /\ phase = "Running"
    /\ marked # {}
    /\ marked \subseteq goria.world
    /\ Buffer(goria).to_delete = marked
    /\ pc > 1
    /\ pc <= Len(goria.schedule)

\* C18: the scheduler moves only Idle -> Running -> ApplyingDeferred ->
\* Idle: a run() starts only from Idle, the run in progress only goes on
\* with its next system (it is never started anew), and no call is made on
\* the instance while a run() is Running or ApplyingDeferred.
C18_SchedulerPhases ==
    [][/\ <<phase, phase'>> \in {<<"Idle", "Idle">>, <<"Idle", "Running">>,
                                 <<"Running", "Running">>,
                                 <<"Running", "ApplyingDeferred">>,
                                 <<"ApplyingDeferred", "Idle">>}
       /\ (phase = "Running" /\ phase' = "Running") =>
            /\ pc' = pc + 1
            /\ executed' = Append(executed, goria.schedule[pc])
       /\ phase # "Idle" => call' = call]_vars

C18_Witness ==
    /\ phase = "Running"
    /\ Val(goria.resources["RenderStats"]) > 0
    /\ executed # << >>
    /\ pc <= Len(goria.schedule)

\* C19: for a resource type that was never inserted, read and write panic,
\* and try_write returns None and leaves the resources as they were; for a
\* type that was inserted, read, write and try_write reach its value.
C19_ResourceAccess ==
    [][/\ call'.op \in {"read", "write"} =>
            IF goria.resources[call'.arg] = None
            THEN aborted' /\ call'.ret = Panic
            ELSE ~aborted' /\ call'.ret = Ok(Val(goria.resources[call'.arg]))
       /\ call'.op = "try_write" =>
            /\ ~aborted'
            /\ goria' = goria
            /\ call'.ret = Ok(IF goria.resources[call'.arg] = None THEN None
                              ELSE Some(Val(goria.resources[call'.arg])))]_vars

C19_Witness ==
    /\ call.op = "try_write"
    /\ call.arg = "Map"
    /\ call.ret = Ok(None)
    /\ goria.resources["Map"] = None
    /\ ~aborted

\* C20: load_from_disk does not fail on a missing or corrupt save file:
\* without a readable map it inserts the default Map, without a readable
\* parking state the default ParkingManagement, and without a readable
\* world snapshot the entities of the World are left as they were.
C20_LoadFallsBackToDefaults ==
    [][call'.op = "load_from_disk" =>
        /\ ~aborted'
        /\ call'.arg.map # "ok" =>
             goria'.resources["Map"] = Some(Default("Map"))
        /\ call'.arg.parking # "ok" =>
             goria'.resources["ParkingManagement"]
                 = Some(Default("ParkingManagement"))
        /\ call'.arg.world # "ok" => goria'.world = goria.world]_vars

C20_Witness ==
    /\ call.op = "load_from_disk"
    /\ call.arg = [map |-> "corrupt", parking |-> "missing", world |-> "missing"]
    /\ goria.world # {}
    /\ goria.resources["Map"] = Some(Default("Map"))
    /\ goria.resources["ParkingManagement"] = Some(Default("ParkingManagement"))
    /\ ~aborted


-----------------------------------------------------------------------------
(* Further properties of the clock *)

\* C22: across the advances of the clock the timestamp never decreases:
\* the timestamp of every GameTime is greater than or equal to the
\* timestamp of the GameTime it replaced.
C22_TimestampNeverDecreases ==
    IsSome(prev) => TsLe(Val(prev), time.timestamp)

C22_Witness ==
    /\ IsSome(prev)
    /\ TsLt(Val(prev), time.timestamp)
    /\ Val(prev) # Ts(0, 0, 0)
    /\ time.seconds.lo >= 2


-----------------------------------------------------------------------------
(* Further properties of the Egregoria instance *)

FrameLogOf(g) == Val(g.resources["FrameLog"])
SamplesOf(g) == Val(g.resources["RenderStats"])

\* C24: in every run() the FrameLog is cleared before the first system
\* executes, so that while the systems of a run execute the FrameLog holds
\* no entry of an earlier run; and the RenderStats receive exactly one
\* sample per run(), recorded after the buffered mutations were applied.
C24_RunBookkeeping ==
    [][/\ (phase = "Idle" /\ phase' = "Running") => FrameLogOf(goria') = {}
       /\ phase' = "Running" => FrameLogOf(goria') \subseteq {runs'}
       /\ SamplesOf(goria') # SamplesOf(goria) =>
            /\ RunReturns
            /\ SamplesOf(goria') = SamplesOf(goria) + 1
            /\ ~Pending(goria')
       /\ SamplesOf(goria') = IF phase' = "Idle" THEN runs' ELSE runs' - 1]_vars

C24_Witness ==
    /\ phase = "Running"
    /\ runs = 2
    /\ FrameLogOf(goria) = {2}
    /\ SamplesOf(goria) = 1
    /\ pc > 1

\* the resources run() itself reads or writes
RunResources == {"FrameLog", "RenderStats", "ParCommandBuffer"}

\* C30: on an instance made by Egregoria::init, run() calls one after the
\* other never panic on an absent resource: FrameLog, RenderStats and
\* ParCommandBuffer are there from init on and stay.
C30_RunFindsItsResources ==
    /\ \A T \in RunResources : goria.resources[T] # None
    /\ (call.op = "run" \/ phase # "Idle") => ~aborted

C30_Witness ==
    /\ runs >= 2
    /\ phase = "Idle"
    /\ call.op = "run"
    /\ SamplesOf(goria) = runs
    /\ ~aborted


\* C23: of one resource type, an exclusive accessor (write, try_write,
\* write_or_default) is never alive together with any other accessor, shared
\* or exclusive; shared accessors (read) may be alive together in any
\* number: a read of a present resource with no exclusive accessor alive
\* gets its accessor, whatever the number of shared ones.
C23_SharedOrExclusive ==
    [][/\ \A T \in ResourceTypes :
            /\ borrows'[T].writers <= 1
            /\ borrows'[T].writers = 1 => borrows'[T].readers = 0
       /\ (call'.op = "read" /\ borrows # borrows') =>
            LET T == call'.arg
            IN  /\ borrows'[T].readers = borrows[T].readers + 1
                /\ ~aborted'
       /\ \A T \in ResourceTypes :
            (/\ call' = [op |-> "read", arg |-> T, ret |-> Panic]
             /\ goria.resources[T] # None) => borrows[T].writers = 1]_vars

C23_Witness ==
    /\ \E T \in ResourceTypes : borrows[T].readers = 2
    /\ \E T \in ResourceTypes : borrows[T].writers = 1
    /\ aborted
    /\ call.op \in {"write", "try_write"}
    /\ borrows[call.arg].readers > 0


-----------------------------------------------------------------------------
(* Further properties of roads *)

\* the k-th lane across a road: the forward lanes from the last of their
\* list to the first, then the backward lanes from the first to the last
LaneAcross(road, k) ==
    LET nf == Len(road.lanes_forward)
    IN  IF k <= nf THEN road.lanes_forward[nf + 1 - k]
        ELSE road.lanes_backward[k - nf]

\* the widths of the lanes across a road before the k-th, added up
RECURSIVE WidthBefore(_, _)
WidthBefore(road, k) ==
    IF k <= 1 THEN 0
    ELSE WidthBefore(road, k - 1) + lanes[LaneAcross(road, k - 1)].width

\* C25: right after gen_pos on a road, the lanes lie across the road in the
\* order forward lanes reversed, then backward lanes: the k-th lane's
\* lateral offset is the sum of the widths of the k-1 lanes before it, the
\* first lane's offset is 0, and the last lane's offset plus its width is
\* the width of the road.
C25_LateralOffsets ==
    lastOp.op = "gen_pos" =>
        LET road == roads[lastOp.road]
            n    == n_lanes(road)
        IN  /\ \A k \in 1..n :
                  /\ IsSome(lanes[LaneAcross(road, k)].points)
                  /\ Val(lanes[LaneAcross(road, k)].points).offset
                        = WidthBefore(road, k)
            /\ n > 0 =>
                  /\ Val(lanes[LaneAcross(road, 1)].points).offset = 0
                  /\ Val(lanes[LaneAcross(road, n)].points).offset
                        + lanes[LaneAcross(road, n)].width = road.width

\* gen_pos has run on a road with two forward lanes of different widths and
\* a backward lane
C25_Witness ==
    /\ lastOp.op = "gen_pos"
    /\ LET road == roads[lastOp.road]
       IN  /\ Len(road.lanes_forward) >= 2
           /\ road.lanes_backward # << >>
           /\ lanes[road.lanes_forward[1]].width
                # lanes[road.lanes_forward[2]].width
           /\ Val(lanes[road.lanes_forward[1]].points).offset
                = lanes[road.lanes_forward[2]].width
           /\ Val(lanes[road.lanes_backward[1]].points).offset
                = WidthBefore(road, Len(road.lanes_forward) + 1)


\* interface_from(id) is at least 0 and at most the stored interface of id
ClampWithinStored(road, id) ==
    /\ 0 <= Val(interface_from(road, id))
    /\ Val(interface_from(road, id)) <= MineAt(road, id)

\* C26, as claimed: on every road whose two stored interfaces are not
\* negative, of whatever length, interface_from(id) is at least 0 and at
\* most the stored interface of id, for both ends of the road.
C26_ClampWithinStoredAsClaimed ==
    \A r \in RoadIDs : \A id \in {roads[r].src, roads[r].dst} :
        (roads[r].src_interface >= 0 /\ roads[r].dst_interface >= 0) =>
            ClampWithinStored(roads[r], id)

\* C26, amended: as claimed, on the roads of length 1 or more; the
\* available length of a shorter road, length - 1, is negative.
C26_ClampWithinStored ==
    \A r \in RoadIDs : \A id \in {roads[r].src, roads[r].dst} :
        (/\ roads[r].src_interface >= 0
         /\ roads[r].dst_interface >= 0
         /\ roads[r].length >= One) => ClampWithinStored(roads[r], id)

\* an interface has been set on a road of length 1 or more, and the two
\* interfaces are clamped, one to less than it is stored and more than 0
C26_Witness ==
    \E r \in RoadIDs :
        LET road == roads[r]
        IN  /\ lastOp.op \in {"set_interface", "max_interface"}
            /\ road.src # road.dst
            /\ road.length >= One
            /\ road.src_interface > 0
            /\ road.dst_interface > 0
            /\ Val(interface_from(road, road.src)) < road.src_interface
            /\ Val(interface_from(road, road.src)) > 0
            /\ Val(interface_from(road, road.dst)) = road.dst_interface


-----------------------------------------------------------------------------
(* Further properties of the times of day *)

\* C27: for every interval built by RecTimeInterval::new, wrapping past
\* midnight or not, dist_until(t) is 0 when t is the interval's start on
\* t's day and when t is the interval's end on t's day.
C27_EndpointsAreInside ==
    (/\ IsSome(tq)
     /\ ToD(Val(tq).hour, Val(tq).second)
            \in {StartOf(interval), EndOf(interval)}) => Val(dist) = 0


\* C28: for second counts s1 and s2 that are not negative, DayTime::new(s1)
\* is less than DayTime::new(s2) in the derived order of DayTime if and only
\* if s1 < s2; and DayTime::new yields 0 <= hour < 24 and 0 <= second < 3600.
C28_OrderAgreesWithSeconds ==
    IsSome(dt) =>
        /\ \A s2 \in SecondsSamples :
              DayTimeLt(Val(dt), DayTimeNew(s2)) <=> secs < s2
        /\ 0 <= Val(dt).hour
        /\ Val(dt).hour < HOURS_PER_DAY
        /\ 0 <= Val(dt).second
        /\ Val(dt).second < SECONDS_PER_HOUR

\* a DayTime of a later day than the first is compared with one of the same
\* day that has a later hour and an earlier second
C28_Witness ==
    /\ IsSome(dt)
    /\ Val(dt).day > 0
    /\ \E s2 \in SecondsSamples :
          /\ DayTimeNew(s2).day = Val(dt).day
          /\ DayTimeNew(s2).hour > Val(dt).hour
          /\ DayTimeNew(s2).second < Val(dt).second
          /\ DayTimeLt(Val(dt), DayTimeNew(s2))
          /\ secs < s2


\* C29: for every road and every end x of it, incoming_lanes_to(x) is the
\* lane list outgoing_lanes_from(other_end(x)) and outgoing_lanes_from(x) is
\* the lane list incoming_lanes_to(other_end(x)), also on a road whose src
\* and dst are the same intersection.
C29_ListsMirrorAtOtherEnd ==
    \A r \in RoadIDs : \A x \in {roads[r].src, roads[r].dst} :
        LET road == roads[r]
            y    == Val(other_end(road, x))
        IN  /\ incoming_lanes_to(road, x) = outgoing_lanes_from(road, y)
            /\ outgoing_lanes_from(road, x) = incoming_lanes_to(road, y)

====
